---- MODULE Spec2Model ----
(***************************************************************************)
(* Reg SHO Threshold Security Monitor (src/app.py).                        *)
(*                                                                         *)
(* Three specifications over one set of variables:                         *)
(*   SpecDays     prev_trading_days, one loop iteration per step           *)
(*   SpecAnalyze  analyze applied to a History drawn in Init                *)
(*   Spec         rebuild_cache workers, /api/data and /api/export/csv     *)
(*                readers, the two files and the guard _lock               *)
(*                                                                         *)
(* A date is the number of days after 2023-01-01.  A DateKey, the string   *)
(* strftime("%Y%m%d") produces, is the integer its eight digits spell:     *)
(* for eight-digit strings the lexical order Python sorts and compares by  *)
(* is the order of these integers.  A symbol is the tuple of its code      *)
(* points, ordered lexically as Python orders strings.                     *)
(***************************************************************************)
EXTENDS Integers, Sequences, FiniteSets, TLC

\* ---------------------------------------------------------------- constants
MAX_LOOKBACK_CAL == 120
MAX_STREAK_DAYS == 60
CLOSEOUT_DAYS == 13
\* the extra candidates update_history asks for beyond MAX_STREAK_DAYS
CANDIDATE_MARGIN == 10
\* the days kept beyond MAX_LOOKBACK_CAL before a key is pruned
PRUNE_MARGIN == 10
\* history_flags is cut to this many entries
FLAGS_SHOWN == 30
DANGER_FROM == 11
WARNING_FROM == 8

\* ------------------------------------------------------------------- bounds
\* the first "today" of a run: 2024-03-15, a Friday
Day0 == 439
\* SpecDays: start ranges over Day0 .. Day0 + StartSpan, n over 0 .. MaxN
StartSpan == 6
MaxN == 88
\* SpecAnalyze: History holds 1 .. SmallDates valid dates, or
\* MAX_STREAK_DAYS - 1 .. MaxDates of them
SmallDates == 3
MaxDates == 62

\* SpecAnalyze: a symbol's listing may be interrupted by 1 .. MaxGap dates
MaxGap == 1
\* SpecAnalyze: the second symbol's most recent run is 0 .. MaxSmallRun dates
MaxSmallRun == 1

\* Spec: midnight passes at most MaxTicks times
MaxTicks == 1

None == "None"
\* a date that is None
NoDate == <<>>

\* ------------------------------------------------------------ date helpers
Min2(a, b) == IF a < b THEN a ELSE b
Max2(a, b) == IF a > b THEN a ELSE b

\* date.weekday(): Monday is 0; 2023-01-01 was a Sunday
weekday(d) == (d + 6) % 7

MonthLens(y) ==
    <<31, IF y % 4 = 0 THEN 29 ELSE 28, 31, 30, 31, 30, 31, 31, 30, 31, 30, 31>>

RECURSIVE MonthDay(_, _, _)
MonthDay(doy, m, y) ==
    IF doy < MonthLens(y)[m] THEN <<m, doy + 1>>
    ELSE MonthDay(doy - MonthLens(y)[m], m + 1, y)

\* d.strftime("%Y%m%d") for the dates of 2023 and 2024
strftime(d) ==
    LET y == IF d < 365 THEN 2023 ELSE 2024
        doy == IF d < 365 THEN d ELSE d - 365
        md == MonthDay(doy, 1, y)
    IN y * 10000 + md[1] * 100 + md[2]

\* f"{k[:4]}-{k[4:6]}-{k[6:]}"
DashDate(k) == <<k \div 10000, (k \div 100) % 100, k % 100>>

\* ------------------------------------------------------ prev_trading_days
\* one iteration of the while loop, on the loop's locals
PTDBodyOffByOne(st) ==
    [days |-> IF weekday(st.cur) < 6 THEN Append(st.days, st.cur) ELSE st.days,
     cur |-> st.cur - 1,
     checked |-> st.checked + 1]

PTDBody(st) ==
    [days |-> IF weekday(st.cur) < 5 THEN Append(st.days, st.cur) ELSE st.days,
     cur |-> st.cur - 1,
     checked |-> st.checked + 1]

PTDGuard(st, n) == Len(st.days) < n /\ st.checked < MAX_LOOKBACK_CAL

RECURSIVE PTDRun(_, _)
PTDRun(st, n) == IF PTDGuard(st, n) THEN PTDRun(PTDBody(st), n) ELSE st

prev_trading_days(s, n) == PTDRun([days |-> <<>>, cur |-> s, checked |-> 0], n).days

\* ------------------------------------------------------------ dict helpers
\* A Snapshot is the dict parse_regsho_file builds: its rows in insertion
\* order, each row a key (symbol) with its value (name, market, rule3210).
\* A History is a function from DateKeys to Snapshots; <<>> is the empty dict.

RECURSIVE LexLess(_, _)
\* Python's str < str
LexLess(a, b) ==
    IF Len(b) = 0 THEN FALSE
    ELSE IF Len(a) = 0 THEN TRUE
    ELSE IF a[1] # b[1] THEN a[1] < b[1]
    ELSE LexLess(Tail(a), Tail(b))

\* set(snapshot): its keys
SnapSyms(snap) == {snap[i].symbol : i \in 1 .. Len(snap)}

\* history.get(dk, {})
HistGet(h, dk) == IF dk \in DOMAIN h THEN h[dk] ELSE <<>>

\* snapshot.get(sym, {})
SnapGet(snap, sym) ==
    IF sym \in SnapSyms(snap)
    THEN LET i == CHOOSE j \in 1 .. Len(snap) : snap[j].symbol = sym IN snap[i]
    ELSE <<>>

\* info.get(field, default)
InfoGet(info, field, default) ==
    IF field \in DOMAIN info THEN info[field] ELSE default

RECURSIVE SortedDesc(_)
\* sorted(keys, reverse=True), the keys being distinct: the median first,
\* the keys above it before it and the keys below it after it
SortedDesc(S) ==
    IF S = {} THEN <<>>
    ELSE LET half == Cardinality(S) \div 2
             m == CHOOSE x \in S : Cardinality({y \in S : y < x}) = half
         IN SortedDesc({y \in S : y > m}) \o <<m>> \o SortedDesc({y \in S : y < m})

RECURSIVE SortedSyms(_)
\* sorted(set of symbols)
SortedSyms(S) ==
    IF S = {} THEN <<>>
    ELSE LET m == CHOOSE x \in S : \A y \in S : y = x \/ LexLess(x, y)
         IN <<m>> \o SortedSyms(S \ {m})

\* seq[:n]
Prefix(seq, n) == SubSeq(seq, 1, Min2(n, Len(seq)))

\* seq[1:]
Rest(seq) == SubSeq(seq, 2, Len(seq))

\* MARKET_LABELS.get(code, code)
market_label(code) ==
    IF code = "G" THEN "Global Select"
    ELSE IF code = "S" THEN "Capital Market"
    ELSE IF code = "Q" THEN "Global Market"
    ELSE code

\* round(num / den): to the nearest integer, a tie to the even one
Round(num, den) ==
    LET q == num \div den
        r == num % den
    IN IF 2 * r < den THEN q
       ELSE IF 2 * r > den THEN q + 1
       ELSE IF q % 2 = 0 THEN q ELSE q + 1

\* ------------------------------------------------------------------ analyze
\* valid_dates: the keys whose snapshot is non-empty, most recent first
ValidDates(h) == SortedDesc({k \in DOMAIN h : Len(h[k]) > 0})

\* sym in history.get(dk, {})
Present(h, sym, dk) == sym \in SnapSyms(HistGet(h, dk))

\* the positions of dates at which the for loop runs its body: the loop
\* leaves at the break of the first position without the symbol, so it
\* reaches a position exactly when every earlier position has the symbol
UntilBreak(h, sym, dates) ==
    {i \in 1 .. Len(dates) : \A j \in 1 .. i - 1 : Present(h, sym, dates[j])}

\* the for loop over dates, from streak = 0 and hist_flags = []: each
\* position reached appends its flag, and adds 1 to streak when the symbol
\* is there
Walk(h, sym, dates, reached) ==
    [streak |-> Cardinality({i \in reached : Present(h, sym, dates[i])}),
     hist_flags |-> [i \in 1 .. Cardinality(reached) |->
                        [date |-> dates[i], in |-> Present(h, sym, dates[i])]]]

StreakWalkNoBreak(h, sym, valid_dates) ==
    LET dates == Prefix(valid_dates, MAX_STREAK_DAYS)
    IN Walk(h, sym, dates, 1 .. Len(dates))

\* for dk in valid_dates[:MAX_STREAK_DAYS]
StreakWalk(h, sym, valid_dates) ==
    LET dates == Prefix(valid_dates, MAX_STREAK_DAYS)
    IN Walk(h, sym, dates, UntilBreak(h, sym, dates))

\* for dk in valid_dates[1:]
RemovalWalk(h, sym, valid_dates) ==
    LET dates == Rest(valid_dates)
    IN Walk(h, sym, dates, UntilBreak(h, sym, dates)).streak

Risk(streak) ==
    IF streak >= DANGER_FROM THEN "danger"
    ELSE IF streak >= WARNING_FROM THEN "warning"
    ELSE "safe"

FirstKeyOldest(valid_dates, streak) == valid_dates[Len(valid_dates)]

\* valid_dates[streak - 1] if streak <= len(valid_dates) else valid_dates[-1];
\* Python's index -1 (streak = 0) is the last element
FirstKey(valid_dates, streak) ==
    IF streak <= Len(valid_dates)
    THEN IF streak >= 1 THEN valid_dates[streak] ELSE valid_dates[Len(valid_dates)]
    ELSE valid_dates[Len(valid_dates)]

\* the dict appended to securities for one row of today's snapshot
SecurityRecord(h, valid_dates, added_today, row) ==
    LET sym == row.symbol
        w == StreakWalk(h, sym, valid_dates)
        streak == w.streak
    IN [symbol |-> sym,
        name |-> InfoGet(row, "name", ""),
        market |-> InfoGet(row, "market", ""),
        market_label |-> market_label(InfoGet(row, "market", "")),
        rule3210 |-> InfoGet(row, "rule3210", "N"),
        streak |-> streak,
        days_remaining |-> Max2(0, CLOSEOUT_DAYS - streak),
        pct |-> Min2(100, Round(streak * 100, CLOSEOUT_DAYS)),
        risk |-> Risk(streak),
        first_date |-> DashDate(FirstKey(valid_dates, streak)),
        is_new |-> \E i \in 1 .. Len(added_today) : added_today[i] = sym,
        history_flags |-> Prefix(w.hist_flags, FLAGS_SHOWN)]

\* the sort key (-streak, symbol)
KeyLessUnordered(a, b) == a.streak > b.streak

KeyLess(a, b) ==
    \/ a.streak > b.streak
    \/ a.streak = b.streak /\ LexLess(a.symbol, b.symbol)

RECURSIVE Insert(_, _)
\* x placed after every element whose key is not greater (a stable sort)
Insert(sorted, x) ==
    IF Len(sorted) = 0 THEN <<x>>
    ELSE IF KeyLess(x, sorted[1]) THEN <<x>> \o sorted
    ELSE <<sorted[1]>> \o Insert(Tail(sorted), x)

RECURSIVE SortSecurities(_, _)
\* securities.sort(key=lambda x: (-x["streak"], x["symbol"]))
SortSecurities(secs, acc) ==
    IF Len(secs) = 0 THEN acc
    ELSE SortSecurities(Tail(secs), Insert(acc, secs[1]))

\* the dict appended to removed_detail for one removed symbol
RemovalRecord(h, valid_dates, prev_data, sym) ==
    LET info == SnapGet(prev_data, sym)
    IN [symbol |-> sym,
        name |-> InfoGet(info, "name", ""),
        market_label |-> market_label(InfoGet(info, "market", "")),
        streak_at_removal |-> RemovalWalk(h, sym, valid_dates),
        rule3210 |-> InfoGet(info, "rule3210", "N")]

\* sum(1 for s in securities if s["risk"] == risk)
CountRisk(secs, risk) == Cardinality({i \in 1 .. Len(secs) : secs[i].risk = risk})

\* sum(1 for s in securities if s["rule3210"] == "Y")
CountRule3210(secs) == Cardinality({i \in 1 .. Len(secs) : secs[i].rule3210 = "Y"})

\* analyze(history); now is datetime.now(ET_ZONE)
analyze(h, now) ==
    IF DOMAIN h = {} THEN <<>>
    ELSE
    LET valid_dates == ValidDates(h) IN
    IF Len(valid_dates) = 0 THEN <<>>
    ELSE
    LET today_key == valid_dates[1]
        today_data == h[today_key]
        has_prev == Len(valid_dates) > 1
        prev_key == IF has_prev THEN valid_dates[2] ELSE None
        prev_data == IF has_prev THEN HistGet(h, prev_key) ELSE <<>>
        today_syms == SnapSyms(today_data)
        prev_syms == SnapSyms(prev_data)
        added_today == SortedSyms(today_syms \ prev_syms)
        removed_today == SortedSyms(prev_syms \ today_syms)
        appended == [i \in 1 .. Len(today_data) |->
                        SecurityRecord(h, valid_dates, added_today, today_data[i])]
        securities == SortSecurities(appended, <<>>)
        removed_detail == [i \in 1 .. Len(removed_today) |->
                        RemovalRecord(h, valid_dates, prev_data, removed_today[i])]
    IN [securities |-> securities,
        added_today |-> added_today,
        removed_today |-> removed_detail,
        ref_date |-> DashDate(today_key),
        prev_date |-> IF has_prev THEN DashDate(prev_key) ELSE NoDate,
        summary |-> [danger |-> CountRisk(securities, "danger"),
                     warning |-> CountRisk(securities, "warning"),
                     safe |-> CountRisk(securities, "safe"),
                     total |-> Len(securities),
                     rule3210 |-> CountRule3210(securities),
                     new_today |-> Len(added_today),
                     removed_today |-> Len(removed_today)],
        last_updated |-> now]

\* ---------------------------------------------------------------- variables
VARIABLES
    ptdStart,   \* prev_trading_days: the argument start
    ptdN,       \* prev_trading_days: the argument n
    ptd,        \* prev_trading_days: the locals days, cur, checked
    ptdPc,      \* prev_trading_days: "loop" or "done"
    history,    \* analyze: the argument
    result,     \* analyze: the returned value
    anPc,       \* analyze: "call" or "done"
    clock,      \* date.today()
    histFile,   \* the History persisted in HISTORY_FILE
    cacheFile,  \* CACHE_FILE: absent, opened for writing and not yet dumped, or full
    lock,       \* the thread holding _lock, or NoOne
    pc,         \* where each rebuild_cache thread and each request handler is
    w,          \* the locals of each rebuild_cache thread
    up          \* the first rebuild_cache is over and the server is serving

vars == <<ptdStart, ptdN, ptd, ptdPc, history, result, anPc,
          clock, histFile, cacheFile, lock, pc, w, up>>

daysVars == <<ptdStart, ptdN, ptd, ptdPc>>
analyzeVars == <<history, result, anPc>>
serverVars == <<clock, histFile, cacheFile, lock, pc, w, up>>

\* the threads that run rebuild_cache: the main thread at startup and the
\* scheduler's job thread after it, and a /api/refresh thread
Workers == {"scheduled", "refresh"}
FirstWorker == "scheduled"
\* the request handlers that read CACHE_FILE
Readers == {"api_data", "export_csv"}
NoOne == "nobody"

IdleLocals ==
    [history |-> <<>>, today |-> Day0, days |-> <<>>, i |-> 1, new_cnt |-> 0,
     fetched |-> <<>>, result |-> <<>>]

ServerIdle ==
    /\ clock = Day0
    /\ histFile = <<>>
    /\ cacheFile = [state |-> "absent"]
    /\ lock = NoOne
    /\ pc = [p \in Workers \cup Readers |-> "idle"]
    /\ w = [p \in Workers |-> IdleLocals]
    /\ up = FALSE

DaysIdle ==
    /\ ptdStart = Day0
    /\ ptdN = 0
    /\ ptd = [days |-> <<>>, cur |-> Day0, checked |-> 0]
    /\ ptdPc = "done"

AnalyzeIdle ==
    /\ history = <<>>
    /\ result = <<>>
    /\ anPc = "done"

\* ------------------------------------------------------------------ SpecDays
InitDays ==
    /\ ptdStart \in Day0 .. Day0 + StartSpan
    /\ ptdN \in 0 .. MaxN
    /\ ptd = [days |-> <<>>, cur |-> ptdStart, checked |-> 0]
    /\ ptdPc = "loop"
    /\ AnalyzeIdle
    /\ ServerIdle

PTDStep ==
    /\ ptdPc = "loop"
    /\ PTDGuard(ptd, ptdN)
    /\ ptd' = PTDBody(ptd)
    /\ UNCHANGED <<ptdStart, ptdN, ptdPc, analyzeVars, serverVars>>

PTDReturn ==
    /\ ptdPc = "loop"
    /\ ~PTDGuard(ptd, ptdN)
    /\ ptdPc' = "done"
    /\ UNCHANGED <<ptdStart, ptdN, ptd, analyzeVars, serverVars>>

NextDays == PTDStep \/ PTDReturn

SpecDays == InitDays /\ [][NextDays]_vars

\* --------------------------------------------------------------- SpecAnalyze
SymA == <<65>>
SymAB == <<65, 66>>
SymB == <<66>>

RowOf(sym) ==
    [symbol |-> sym,
     name |-> IF sym = SymA THEN "Alpha" ELSE IF sym = SymAB THEN "Abacus" ELSE "Beta",
     market |-> IF sym = SymA THEN "G" ELSE IF sym = SymAB THEN "Q" ELSE "Z",
     rule3210 |-> IF sym = SymB THEN "Y" ELSE "N"]

\* a listing pattern <<a, g>>: listed on the a most recent dates, off the
\* list for the g dates before them, listed on every older date
Listed(pat, i) == i <= pat[1] \/ i > pat[1] + pat[2]

\* the rows of one date's file, in the order the file gives them
SnapshotOf(pats, i, reversed) ==
    LET rows == SelectSeq(<<SymA, SymAB, SymB>>,
                          LAMBDA s : Listed(pats[s], i))
        n == Len(rows)
    IN [j \in 1 .. n |-> RowOf(IF reversed THEN rows[n + 1 - j] ELSE rows[j])]

RECURSIVE HistoryFrom(_, _, _, _)
\* the keys of the dates ds[i], ds[i + 1], ..., each with its snapshot
HistoryFrom(ds, i, pats, reversed) ==
    LET entry == strftime(ds[i]) :> SnapshotOf(pats, i, reversed)
    IN IF i >= Len(ds) THEN entry
       ELSE entry @@ HistoryFrom(ds, i + 1, pats, reversed)

\* the History update_history leaves after fetching the nd most recent
\* weekdays up to day
HistoryOf(day, nd, pats, reversed) ==
    CHOOSE h \in {HistoryFrom(ds, 1, pats, reversed) :
                     ds \in {prev_trading_days(day, nd)}} : TRUE

InitAnalyze ==
    /\ \E nd \in 1 .. MaxDates, a1 \in 0 .. MaxDates, g1 \in 0 .. MaxGap,
          a2 \in 0 .. MaxSmallRun, g2 \in 0 .. 1, g3 \in 0 .. 1,
          reversed \in BOOLEAN :
          /\ nd <= SmallDates \/ nd >= MAX_STREAK_DAYS - 1
          /\ a1 <= nd
          /\ g1 = 0 => a1 = 0
          /\ g2 = 0 => a2 = 0
          /\ \E h \in {HistoryOf(Day0, nd,
                                 (SymB :> <<a1, g1>>) @@ (SymA :> <<a2, g2>>)
                                 @@ (SymAB :> <<0, g3>>), reversed)} :
                /\ \A k \in DOMAIN h : Len(h[k]) > 0
                /\ history = h
    /\ result = <<>>
    /\ anPc = "call"
    /\ DaysIdle
    /\ ServerIdle

DoAnalyze ==
    /\ anPc = "call"
    /\ result' = analyze(history, Day0)
    /\ anPc' = "done"
    /\ UNCHANGED <<history, daysVars, serverVars>>

NextAnalyze == DoAnalyze

SpecAnalyze == InitAnalyze /\ [][NextAnalyze]_vars

\* ---------------------------------------------------------------------- Spec
\* rebuild_cache threads, the /api/data and /api/export/csv handlers, the two
\* files and _lock.  Steps that touch only a thread's own locals are taken
\* together with the step before them: the loop iterations that skip a key
\* already in history, analyze after update_history, and the end of a with
\* block after the last statement inside it.  update_history writes
\* HISTORY_FILE outside _lock, and the write is taken as one step; the write
\* of CACHE_FILE is taken as two, open (which truncates) and dump.

\* save_json(CACHE_FILE, data), first half: open(path, "w") truncates the file
save_json_open(file) == [state |-> "torn"]

\* save_json(CACHE_FILE, data), second half: json.dump writes data
save_json_dump(file, data) == [state |-> "full", data |-> data]

NoData == [none |-> TRUE]
Some(v) == [none |-> FALSE, value |-> v]

\* the file NASDAQ publishes for date d, as parse_regsho_file reads it
PublishedOn(d) ==
    IF d % 2 = 0 THEN <<RowOf(SymB), RowOf(SymA)>> ELSE <<RowOf(SymA), RowOf(SymAB)>>

\* what requests.get(url, timeout=15) may do for date d: raise, answer with
\* another status, answer 200 without a "|", answer 200 with a file that
\* parses to no row, answer 200 with the day's file
Responses(d) ==
    {[raised |-> TRUE, status |-> 0, piped |-> FALSE, parsed |-> <<>>],
     [raised |-> FALSE, status |-> 404, piped |-> FALSE, parsed |-> <<>>],
     [raised |-> FALSE, status |-> 200, piped |-> FALSE, parsed |-> <<>>],
     [raised |-> FALSE, status |-> 200, piped |-> TRUE, parsed |-> <<>>],
     [raised |-> FALSE, status |-> 200, piped |-> TRUE, parsed |-> PublishedOn(d)]}

fetch_day(resp) ==
    IF resp.raised THEN NoData
    ELSE IF resp.status = 200 /\ resp.piped
         THEN IF Len(resp.parsed) > 0 THEN Some(resp.parsed) ELSE NoData
    ELSE NoData

\* days = prev_trading_days(today, MAX_STREAK_DAYS + 10), for each today the
\* clock can show
Candidates ==
    [today \in Day0 .. Day0 + MaxTicks |->
        prev_trading_days(today, MAX_STREAK_DAYS + CANDIDATE_MARGIN)]

RECURSIVE NextMissing(_, _, _)
\* for d in days: if key in history: continue -- the next index from i on
\* whose key is not in history, or len(days) + 1
NextMissing(h, days, i) ==
    IF i > Len(days) THEN i
    ELSE IF strftime(days[i]) \in DOMAIN h THEN NextMissing(h, days, i + 1)
    ELSE i

RecordFetchAlways(h, key, data) ==
    (key :> IF data.none THEN <<>> ELSE data.value) @@ h

\* if data is not None: history[key] = data
RecordFetch(h, key, data) ==
    IF data.none THEN h ELSE (key :> data.value) @@ h

\* cutoff = (today - timedelta(days=MAX_LOOKBACK_CAL + 10)).strftime("%Y%m%d")
\* history = {k: v for k, v in history.items() if k >= cutoff}
Prune(h, today) ==
    LET cutoff == strftime(today - (MAX_LOOKBACK_CAL + PRUNE_MARGIN))
    IN [k \in {x \in DOMAIN h : x >= cutoff} |-> h[k]]

\* the History holding every weekday of lo .. hi
FileFrom(hi, lo) ==
    LET ds == {d \in lo .. hi : weekday(d) < 5}
    IN [k \in {strftime(d) : d \in ds} |->
           PublishedOn(CHOOSE d \in ds : strftime(d) = k)]

\* the last weekday before Day0
LastRun ==
    CHOOSE d \in Day0 - 3 .. Day0 - 1 :
        weekday(d) < 5 /\ \A e \in d + 1 .. Day0 - 1 : weekday(e) >= 5

\* The process starts with no CACHE_FILE, so that the main thread calls
\* rebuild_cache itself before it starts the scheduler and the server.
\* HISTORY_FILE is as a run on the last weekday before Day0 left it: every
\* weekday from that run's cutoff up to that day.
Init ==
    /\ clock = Day0
    /\ \E h \in {FileFrom(LastRun, LastRun - (MAX_LOOKBACK_CAL + PRUNE_MARGIN))} :
          histFile = h
    /\ cacheFile = [state |-> "absent"]
    /\ lock = NoOne
    /\ pc = [p \in Workers \cup Readers |-> "idle"]
    /\ w = [p \in Workers |-> IdleLocals]
    /\ up = FALSE
    /\ DaysIdle
    /\ AnalyzeIdle

\* rebuild_cache starts; update_history loads History, reads today and lists
\* the candidate dates
Load(p) ==
    /\ pc[p] = "idle"
    /\ up \/ p = FirstWorker
    /\ w' = [w EXCEPT ![p] =
                [history |-> histFile, today |-> clock, days |-> Candidates[clock],
                 i |-> NextMissing(histFile, Candidates[clock], 1), new_cnt |-> 0,
                 fetched |-> <<>>, result |-> <<>>]]
    /\ pc' = [pc EXCEPT ![p] = "loop"]
    /\ UNCHANGED <<clock, histFile, cacheFile, lock, up, daysVars, analyzeVars>>

\* one iteration of the for loop for a date whose key is not in history
Fetch(p) ==
    /\ pc[p] = "loop"
    /\ w[p].i <= Len(w[p].days)
    /\ \E resp \in Responses(w[p].days[w[p].i]) :
          \E key \in {strftime(w[p].days[w[p].i])}, data \in {fetch_day(resp)} :
              \E h2 \in {RecordFetch(w[p].history, key, data)} :
                  w' = [w EXCEPT ![p] =
                           [@ EXCEPT
                               !.history = h2,
                               !.new_cnt = IF data.none THEN @ ELSE @ + 1,
                               !.fetched = Append(@, [key |-> key,
                                                      known |-> key \in DOMAIN w[p].history,
                                                      data |-> data]),
                               !.i = NextMissing(h2, w[p].days, w[p].i + 1)]]
    /\ UNCHANGED <<clock, histFile, cacheFile, lock, pc, up, daysVars, analyzeVars>>

\* the loop is over: update_history prunes, saves and returns; rebuild_cache
\* analyzes what it returned
SaveHistory(p) ==
    /\ pc[p] = "loop"
    /\ w[p].i > Len(w[p].days)
    /\ histFile' = Prune(w[p].history, w[p].today)
    /\ \E r \in {analyze(histFile', clock)} :
          IF DOMAIN r # {}
          THEN /\ w' = [w EXCEPT ![p] = [IdleLocals EXCEPT !.result = r]]
               /\ pc' = [pc EXCEPT ![p] = "acquire"]
               /\ up' = up
          ELSE /\ w' = [w EXCEPT ![p] = IdleLocals]
               /\ pc' = [pc EXCEPT ![p] = "idle"]
               /\ up' = TRUE
    /\ UNCHANGED <<clock, cacheFile, lock, daysVars, analyzeVars>>

\* with _lock: save_json opens CACHE_FILE for writing
OpenCache(p) ==
    /\ pc[p] = "acquire"
    /\ lock = NoOne
    /\ lock' = p
    /\ cacheFile' = save_json_open(cacheFile)
    /\ pc' = [pc EXCEPT ![p] = "dump"]
    /\ UNCHANGED <<clock, histFile, w, up, daysVars, analyzeVars>>

\* json.dump writes the result; the with block ends and rebuild_cache returns
\* (after its first return the main thread starts the scheduler and the server)
DumpCache(p) ==
    /\ pc[p] = "dump"
    /\ cacheFile' = save_json_dump(cacheFile, w[p].result)
    /\ lock' = NoOne
    /\ pc' = [pc EXCEPT ![p] = "idle"]
    /\ w' = [w EXCEPT ![p] = IdleLocals]
    /\ up' = TRUE
    /\ UNCHANGED <<clock, histFile, daysVars, analyzeVars>>

\* /api/data: with _lock: load_json opens CACHE_FILE
ApiOpen ==
    /\ up
    /\ pc["api_data"] = "idle"
    /\ lock = NoOne
    /\ lock' = "api_data"
    /\ pc' = [pc EXCEPT !["api_data"] = "read"]
    /\ UNCHANGED <<clock, histFile, cacheFile, w, up, daysVars, analyzeVars>>

\* /api/data: json.load reads the file; the with block ends and the handler
\* answers from what it read
ApiRead ==
    /\ pc["api_data"] = "read"
    /\ lock' = NoOne
    /\ pc' = [pc EXCEPT !["api_data"] = "idle"]
    /\ UNCHANGED <<clock, histFile, cacheFile, w, up, daysVars, analyzeVars>>

\* /api/export/csv: load_json opens CACHE_FILE
CsvOpen ==
    /\ up
    /\ pc["export_csv"] = "idle"
    /\ pc' = [pc EXCEPT !["export_csv"] = "read"]
    /\ UNCHANGED <<clock, histFile, cacheFile, lock, w, up, daysVars, analyzeVars>>

\* /api/export/csv: json.load reads the file, and the handler answers from
\* what it read
CsvRead ==
    /\ pc["export_csv"] = "read"
    /\ pc' = [pc EXCEPT !["export_csv"] = "idle"]
    /\ UNCHANGED <<clock, histFile, cacheFile, lock, w, up, daysVars, analyzeVars>>

\* midnight
Tick ==
    /\ clock < Day0 + MaxTicks
    /\ clock' = clock + 1
    /\ UNCHANGED <<histFile, cacheFile, lock, pc, w, up, daysVars, analyzeVars>>

Next ==
    \/ \E p \in Workers :
          \/ Load(p) \/ Fetch(p) \/ SaveHistory(p)
          \/ OpenCache(p) \/ DumpCache(p)
    \/ ApiOpen \/ ApiRead
    \/ CsvOpen \/ CsvRead
    \/ Tick

Spec == Init /\ [][Next]_vars

\* ------------------------------------------------ the claims about analyze
\* the symbol is a key of the snapshot History holds for DateKey k
PresentOn(sym, k) == \E i \in 1 .. Len(history[k]) : history[k][i].symbol = sym

\* the number of leading dates of dates on which the symbol is present
RECURSIVE LeadingRun(_, _, _)
LeadingRun(sym, dates, i) ==
    IF i > Len(dates) \/ ~PresentOn(sym, dates[i]) THEN 0
    ELSE 1 + LeadingRun(sym, dates, i + 1)

Analyzed == anPc = "done" /\ DOMAIN result # {}

Securities == {result.securities[i] : i \in 1 .. Len(result.securities)}

\* C1: for every symbol of the refDate snapshot, streak is the length of the
\* longest prefix of validDates[0 : MAX_STREAK_DAYS] on every date of which the
\* symbol is present, so 1 <= streak <= min(MAX_STREAK_DAYS, |validDates|).
C1_StreakIsLongestPrefix ==
    anPc = "done" =>
        \A vd \in {ValidDates(history)} :
            Len(vd) >= 1 =>
                /\ DOMAIN result # {}
                /\ \A sym \in SnapSyms(history[vd[1]]) :
                      \E s \in Securities :
                          /\ s.symbol = sym
                          /\ s.streak >= 1
                          /\ s.streak <= Min2(MAX_STREAK_DAYS, Len(vd))
                          /\ \A j \in 1 .. s.streak : PresentOn(sym, vd[j])
                          /\ s.streak < Min2(MAX_STREAK_DAYS, Len(vd))
                                => ~PresentOn(sym, vd[s.streak + 1])

\* a symbol that is absent on some date and present again on an older one,
\* both inside the walked window
C1_Witness ==
    /\ Analyzed
    /\ \A vd \in {ValidDates(history)} :
          \E s \in Securities :
              \E j \in 1 .. Min2(MAX_STREAK_DAYS, Len(vd)) :
                  j > s.streak + 1 /\ PresentOn(s.symbol, vd[j])

\* C2: with exactly one valid date, prev_date is none, added_today and
\* removed_today are empty, summary.new_today is 0 and no record is_new.
C2_SingleDateNothingNew ==
    (anPc = "done" /\ Len(ValidDates(history)) = 1) =>
        /\ result.prev_date = NoDate
        /\ result.added_today = <<>>
        /\ result.removed_today = <<>>
        /\ result.summary.new_today = 0
        /\ \A s \in Securities : ~s.is_new

\* the symbol is present on more than MAX_STREAK_DAYS consecutive valid
\* dates counted back from refDate
LongListed(sym, vd) ==
    /\ Len(vd) > MAX_STREAK_DAYS
    /\ \A j \in 1 .. MAX_STREAK_DAYS + 1 : PresentOn(sym, vd[j])

\* C3 as stated: such a symbol reports streak = MAX_STREAK_DAYS and first_date
\* = the oldest valid date of History, the last element of validDates.
C3_FirstDateIsOldestRetained ==
    Analyzed =>
        \A vd \in {ValidDates(history)} :
            \A s \in Securities :
                LongListed(s.symbol, vd) =>
                    /\ s.streak = MAX_STREAK_DAYS
                    /\ s.first_date = DashDate(vd[Len(vd)])

\* C3 as amended: such a symbol reports streak = MAX_STREAK_DAYS and
\* first_date = validDates[MAX_STREAK_DAYS - 1], the oldest date the walk
\* counted, whatever older dates History retains.
C3_FirstDateIsWindowStart ==
    Analyzed =>
        \A vd \in {ValidDates(history)} :
            \A s \in Securities :
                LongListed(s.symbol, vd) =>
                    /\ s.streak = MAX_STREAK_DAYS
                    /\ s.first_date = DashDate(vd[MAX_STREAK_DAYS])
                    /\ s.first_date # DashDate(vd[Len(vd)])

C3_Witness ==
    /\ Analyzed
    /\ \A vd \in {ValidDates(history)} :
          \E s \in Securities : LongListed(s.symbol, vd)

\* C6: history_flags holds one {date, present} entry for each of the first
\* min(30, MAX_STREAK_DAYS, |validDates|) valid dates, most recent first, the
\* dates after the first absence included.
C6_FlagsCoverWindow ==
    Analyzed =>
        \A vd \in {ValidDates(history)} :
            \A s \in Securities :
                /\ Len(s.history_flags)
                      = Min2(FLAGS_SHOWN, Min2(MAX_STREAK_DAYS, Len(vd)))
                /\ \A j \in 1 .. Len(s.history_flags) :
                      /\ s.history_flags[j].date = vd[j]
                      /\ s.history_flags[j].in = PresentOn(s.symbol, vd[j])

\* C7: securities holds exactly one record per symbol of the refDate
\* snapshot, by streak descending and, within one streak, symbol ascending.
C7_SecuritiesOrdered ==
    Analyzed =>
        \A vd \in {ValidDates(history)} :
            LET secs == result.securities IN
            /\ Len(secs) = Cardinality(SnapSyms(history[vd[1]]))
            /\ {secs[i].symbol : i \in 1 .. Len(secs)} = SnapSyms(history[vd[1]])
            /\ \A i \in 1 .. Len(secs) - 1 :
                  \/ secs[i].streak > secs[i + 1].streak
                  \/ /\ secs[i].streak = secs[i + 1].streak
                     /\ LexLess(secs[i].symbol, secs[i + 1].symbol)

\* two records tie on streak, and the snapshot lists its rows in another
\* order than the one securities ends in
C7_Witness ==
    /\ Analyzed
    /\ \E i \in 1 .. Len(result.securities) - 1 :
          result.securities[i].streak = result.securities[i + 1].streak
    /\ \A vd \in {ValidDates(history)} :
          \E i \in 1 .. Len(result.securities) :
              history[vd[1]][i].symbol # result.securities[i].symbol

\* C8: streak_at_removal is the number of consecutive valid dates from
\* validDates[1] on which the symbol is present, the walk covering at most
\* MAX_STREAK_DAYS dates, so 1 <= streak_at_removal <= MAX_STREAK_DAYS.
C8_RemovalStreakBounded ==
    (Analyzed /\ Len(ValidDates(history)) >= 2) =>
        \A vd \in {ValidDates(history)} :
            \A i \in 1 .. Len(result.removed_today) :
                LET r == result.removed_today[i] IN
                /\ PresentOn(r.symbol, vd[2])
                /\ ~PresentOn(r.symbol, vd[1])
                /\ r.streak_at_removal >= 1
                /\ r.streak_at_removal <= MAX_STREAK_DAYS
                /\ r.streak_at_removal
                      = LeadingRun(r.symbol, Prefix(Rest(vd), MAX_STREAK_DAYS), 1)

\* C9: prev_trading_days examines at most MAX_LOOKBACK_CAL calendar days and
\* returns at most n dates, all of them weekdays, strictly decreasing, none
\* later than start, all within the MAX_LOOKBACK_CAL calendar days ending at
\* start; it returns fewer than n only when that budget is used up.
C9_PrevTradingDays ==
    LET ds == ptd.days IN
    /\ ptd.checked <= MAX_LOOKBACK_CAL
    /\ ptd.cur = ptdStart - ptd.checked
    /\ Len(ds) <= ptdN
    /\ \A i \in 1 .. Len(ds) :
          /\ weekday(ds[i]) \in 0 .. 4
          /\ ds[i] <= ptdStart
          /\ ds[i] > ptdStart - MAX_LOOKBACK_CAL
    /\ \A i \in 1 .. Len(ds) - 1 : ds[i] > ds[i + 1]
    /\ ptdPc = "done" =>
          /\ Len(ds) = ptdN \/ ptd.checked = MAX_LOOKBACK_CAL
          /\ ds = prev_trading_days(ptdStart, ptdN)

C9_Witness ==
    /\ ptdPc = "done"
    /\ ptd.checked = MAX_LOOKBACK_CAL
    /\ Len(ptd.days) < ptdN
    /\ Len(ptd.days) > 0

\* ------------------------------------- the claims about the running server
\* C4: every write of CACHE_FILE and every read of it happens with _lock
\* held, so no reader reads the file while a write to it is in progress, and
\* at most one write is in progress at a time.
C4_CacheAccessUnderLock ==
    /\ \A p \in Workers : pc[p] = "dump" => lock = p
    /\ \A r \in Readers : pc[r] = "read" => lock = r
    /\ \A r \in Readers : pc[r] = "read" => cacheFile.state # "torn"
    /\ Cardinality({p \in Workers : pc[p] = "dump"}) <= 1

\* the fetches an update_history run has made so far
Fetched(p) == {w[p].fetched[n] : n \in 1 .. Len(w[p].fetched)}

C10_HistoryAppendOnly ==
    [][\A k \in DOMAIN histFile :
          \/ k \in DOMAIN histFile' /\ histFile'[k] = histFile[k]
          \/ k < strftime(clock' - (MAX_LOOKBACK_CAL + PRUNE_MARGIN))]_vars

====
